---------------------------- MODULE Spec2Model ----------------------------
(***************************************************************************)
(* Model of the file-share session manager of chen-zeong/chef              *)
(* (src-tauri/src/commands/file_share.rs): FileShareManager::start, stop   *)
(* and snapshot, the ActiveShare they guard with a tokio Mutex, and the    *)
(* axum server task each session spawns.                                   *)
(***************************************************************************)
EXTENDS Integers, Sequences, FiniteSets, TLC

(***************************************************************************)
(* Bounds of the model.                                                    *)
(***************************************************************************)
\* number of concurrent callers of the tauri commands
NumCallers == 2
\* sessions alive at once: the one in the slot or taken from it, and one per
\* start call in progress
MaxSessions == NumCallers + 1

\* most interfaces get_if_addrs reports
MaxIfaces == 2
\* longest selection passed to the manifest builder
MaxLen == 2
\* number of manifest builds made one after the other
MaxBuilds == 2

Callers == 1..NumCallers
Sessions == 1..MaxSessions

\* Option::None in the slot, and "no session" in a caller's locals
None == 0

(***************************************************************************)
(* The file system the manifest builder reads.  Paths are sequences of     *)
(* components; a raw path is the string the caller passes.                 *)
(***************************************************************************)
HomeDir == <<"home">>

\* Path::canonicalize: the absolute path, or <<>> when it does not exist
canonicalize(raw) ==
    CASE raw = "a.txt"  -> HomeDir \o <<"a.txt">>
      [] raw = "docs"   -> HomeDir \o <<"docs">>
      [] raw = "empty"  -> HomeDir \o <<"empty">>
      [] raw = "readme" -> HomeDir \o <<"docs", "readme.txt">>
      [] raw = "locked" -> HomeDir \o <<"locked">>
      [] raw = "odd"    -> HomeDir \o <<"odd">>
      [] OTHER          -> <<>>

\* file names a Unix file system allows: one with a backslash, one with
\* double quotes, one with a line feed and no extension
Backslashed == "we\\ird.txt"
Quoted == "say\"hi\".txt"
TwoLines == "two\nlines"

\* the regular files of the file system
RegularFiles ==
    { HomeDir \o <<"a.txt">>,
      HomeDir \o <<"docs", "readme.txt">>,
      HomeDir \o <<"docs", "sub", "note.txt">>,
      HomeDir \o <<"locked", "ok.txt">>,
      HomeDir \o <<"odd", Backslashed>>,
      HomeDir \o <<"odd", Quoted>>,
      HomeDir \o <<"odd", TwoLines>> }

is_file(path) == path \in RegularFiles

is_dir(path) ==
    path \in { HomeDir \o <<"docs">>, HomeDir \o <<"docs", "sub">>,
               HomeDir \o <<"empty">>,
               HomeDir \o <<"locked">>, HomeDir \o <<"locked", "private">>,
               HomeDir \o <<"odd">> }

\* a walk that lists the directory and does not descend
WalkDir_flat(dir) ==
    CASE dir = HomeDir \o <<"docs">> ->
             << dir, dir \o <<"readme.txt">>, dir \o <<"sub">> >>
      [] dir = HomeDir \o <<"locked">> ->
             << dir, dir \o <<"ok.txt">>, dir \o <<"private">> >>
      [] dir = HomeDir \o <<"odd">> ->
             << dir, dir \o <<Backslashed>>, dir \o <<Quoted>>, dir \o <<TwoLines>> >>
      [] OTHER -> << dir >>

\* an item of a walk that is Err(..): an entry that cannot be read
WalkError == <<>>

\* WalkDir::new(dir).into_iter(): every entry under dir, dir itself first;
\* reading the directory locked/private is refused
WalkDir(dir) ==
    CASE dir = HomeDir \o <<"docs">> ->
             << dir, dir \o <<"readme.txt">>, dir \o <<"sub">>,
                dir \o <<"sub", "note.txt">> >>
      [] dir = HomeDir \o <<"locked">> ->
             << dir, dir \o <<"ok.txt">>, dir \o <<"private">>, WalkError >>
      [] dir = HomeDir \o <<"odd">> ->
             << dir, dir \o <<Backslashed>>, dir \o <<Quoted>>, dir \o <<TwoLines>> >>
      [] OTHER -> << dir >>

Last(s) == s[Len(s)]

\* Path::strip_prefix
strip_prefix(path, base) == SubSeq(path, Len(base) + 1, Len(path))

\* OsStr::to_str: the text of a name, as runs of letters, digits and dots, and
\* each other character on its own
to_str(name) ==
    CASE name = Backslashed -> << "we", "\\", "ird.txt" >>
      [] name = Quoted      -> << "say", "\"", "hi", "\"", ".txt" >>
      [] name = TwoLines    -> << "two", "\n", "lines" >>
      [] OTHER              -> << name >>

\* Path::file_name().and_then(|os| os.to_str()): the last component
file_name(path) == to_str(Last(path))

\* std::path::MAIN_SEPARATOR of the build: the file system is a Unix one
MAIN_SEPARATOR == "/"

\* Path::to_string_lossy of a relative path: the texts of its components
\* with the separator of the platform between them
RECURSIVE to_string_lossy(_)
to_string_lossy(path) ==
    IF path = <<>> THEN <<>>
    ELSE IF Len(path) = 1 THEN to_str(path[1])
    ELSE to_str(path[1]) \o << MAIN_SEPARATOR >> \o to_string_lossy(Tail(path))

\* str::replace(from, to) for a one-character pattern
replace(s, from, to) == [ i \in 1..Len(s) |-> IF s[i] = from THEN to ELSE s[i] ]

\* lines 283-284: relative.to_string_lossy().replace('\\', "/") and
\* format!("{}/{}", folder_label, relative_str)
display(folder_label, relative) ==
    to_str(folder_label) \o << "/" >> \o replace(to_string_lossy(relative), "\\", "/")

\* the names whose extension is txt
TxtNames == { "a.txt", "readme.txt", "note.txt", "ok.txt", Backslashed, Quoted }

\* Path::extension: Some(ext) as <<ext>>
extension(path) == IF Last(path) \in TxtNames THEN << "txt" >> ELSE <<>>

\* mime_guess::from_path(path).first_raw(): the type of the extension
mime_guess(path) == IF extension(path) = << "txt" >> THEN << "text/plain" >> ELSE <<>>

\* entries whose id is made from the path of the file
push_file_entry_by_path(result, path, display_name, sess) ==
    IF path \notin RegularFiles
    THEN result
    ELSE Append(result, [ id            |-> <<0, path>>,
                          display_name  |-> display_name,
                          download_name |-> to_str(path[Len(path)]),
                          mime          |-> mime_guess(path),
                          path          |-> path ])

\* push_file_entry: one ServerFile with a fresh uuid; uuids are modelled as
\* <<session, index>>, distinct from the uuids of every other live session
push_file_entry(result, path, display_name, sess) ==
    IF ~is_file(path)
    THEN result
    ELSE Append(result, [ id            |-> <<sess, Len(result) + 1>>,
                          display_name  |-> display_name,
                          download_name |-> file_name(path),
                          mime          |-> mime_guess(path),
                          path          |-> path ])

\* a walk loop that passes over the entries it cannot read
RECURSIVE walk_entries_skip_errors(_, _, _, _, _)
walk_entries_skip_errors(result, walk, canonical, folder_label, sess) ==
    IF walk = <<>>
    THEN [ ok |-> TRUE, files |-> result ]
    ELSE LET entry == Head(walk)
             next  == IF entry \notin RegularFiles
                      THEN result
                      ELSE Append(result,
                               [ id            |-> <<sess, Len(result) + 1>>,
                                 display_name  |->
                                     display(folder_label,
                                         SubSeq(entry, Len(canonical) + 1, Len(entry))),
                                 download_name |-> to_str(entry[Len(entry)]),
                                 mime          |-> mime_guess(entry),
                                 path          |-> entry ])
         IN  walk_entries_skip_errors(next, Tail(walk), canonical, folder_label, sess)

\* the loop over the walk of a selected directory: the entries pushed, or
\* the failure of the walk
RECURSIVE walk_entries(_, _, _, _, _)
walk_entries(result, walk, canonical, folder_label, sess) ==
    IF walk = <<>>
    THEN [ ok |-> TRUE, files |-> result ]
    ELSE LET entry == Head(walk)
             next  == IF ~is_file(entry)
                      THEN result
                      ELSE push_file_entry(result, entry,
                               display(folder_label, strip_prefix(entry, canonical)),
                               sess)
         IN  IF entry = WalkError
             THEN [ ok |-> FALSE, files |-> <<>> ]
             ELSE walk_entries(next, Tail(walk), canonical, folder_label, sess)

\* a build that accepts a selection without any regular file
RECURSIVE build_loop_allow_empty(_, _, _)
build_loop_allow_empty(result, entries, sess) ==
    IF entries = <<>>
    THEN [ok |-> TRUE, err |-> "", files |-> result]
    ELSE LET canonical == canonicalize(Head(entries))
         IN  IF canonical = <<>>
             THEN [ok |-> FALSE, err |-> "FileSystemError", files |-> <<>>]
             ELSE IF canonical \in RegularFiles
             THEN build_loop_allow_empty(
                      Append(result, [ id            |-> <<sess, Len(result) + 1>>,
                                       display_name  |-> to_str(canonical[Len(canonical)]),
                                       download_name |-> to_str(canonical[Len(canonical)]),
                                       mime          |-> mime_guess(canonical),
                                       path          |-> canonical ]),
                      Tail(entries), sess)
             ELSE build_loop_allow_empty(result, Tail(entries), sess)

RECURSIVE build_loop(_, _, _)
build_loop(result, entries, sess) ==
    IF entries = <<>>
    THEN IF result = <<>>
         THEN [ok |-> FALSE, err |-> "EmptySelection", files |-> <<>>]
         ELSE [ok |-> TRUE, err |-> "", files |-> result]
    ELSE LET canonical == canonicalize(Head(entries))
         IN  IF canonical = <<>>
             THEN [ok |-> FALSE, err |-> "FileSystemError", files |-> <<>>]
             ELSE IF is_file(canonical)
             THEN build_loop(push_file_entry(result, canonical,
                                             file_name(canonical), sess),
                             Tail(entries), sess)
             ELSE IF is_dir(canonical)
             THEN LET walked == walk_entries(result, WalkDir(canonical),
                                             canonical, Last(canonical), sess)
                  IN  IF walked.ok
                      THEN build_loop(walked.files, Tail(entries), sess)
                      ELSE [ok |-> FALSE, err |-> "FileSystemError", files |-> <<>>]
             ELSE build_loop(result, Tail(entries), sess)

build_server_files(entries, sess) == build_loop(<<>>, entries, sess)

\* a files_meta that lists the entries from the last to the first
SharedFileMeta_reversed(files) ==
    [ i \in 1..Len(files) |->
        [ id            |-> files[Len(files) + 1 - i].id,
          display_name  |-> files[Len(files) + 1 - i].display_name,
          download_name |-> files[Len(files) + 1 - i].download_name ] ]

\* files_meta: the ServerFile list without the source paths
SharedFileMeta(files) ==
    [ i \in 1..Len(files) |->
        [ id            |-> files[i].id,
          display_name  |-> files[i].display_name,
          download_name |-> files[i].download_name ] ]


(***************************************************************************)
(* Strings are sequences of one-character strings, so that formatting,     *)
(* prefix tests and the byte-wise sort of the URL list are computed.       *)
(***************************************************************************)
\* the characters the URLs use, in ASCII order
Ascii ==
    << ".", "/", "0", "1", "2", "3", "4", "5", "6", "7", "8", "9", ":",
       "[", "]", "a", "c", "d", "e", "f", "h", "l", "o", "p", "s", "t" >>

Code(c) == CHOOSE i \in 1..Len(Ascii) : Ascii[i] = c

\* str < str of Rust: byte-wise lexicographic order
RECURSIVE StrLess(_, _)
StrLess(a, b) ==
    IF b = <<>> THEN FALSE
    ELSE IF a = <<>> THEN TRUE
    ELSE IF Head(a) = Head(b) THEN StrLess(Tail(a), Tail(b))
    ELSE Code(Head(a)) < Code(Head(b))

starts_with(s, prefix) ==
    /\ Len(s) >= Len(prefix)
    /\ SubSeq(s, 1, Len(prefix)) = prefix

contains(s, pat) ==
    \E i \in 1..(Len(s) + 1) :
        /\ i + Len(pat) - 1 <= Len(s)
        /\ SubSeq(s, i, i + Len(pat) - 1) = pat

\* {port} of format!: the decimal digits of the number
RECURSIVE Decimal(_)
Decimal(n) ==
    IF n < 10 THEN << Ascii[n + 3] >>
    ELSE Decimal(n \div 10) \o << Ascii[(n % 10) + 3] >>

HttpPrefix == << "h", "t", "t", "p", ":", "/", "/" >>
Localhost == << "l", "o", "c", "a", "l", "h", "o", "s", "t" >>
Loopback4 == << "1", "2", "7", ".", "0", ".", "0", ".", "1" >>
Prefix192 == HttpPrefix \o << "1", "9", "2", "." >>

\* format!("http://{host}:{port}")
Url(host, port) == HttpPrefix \o host \o << ":" >> \o Decimal(port)

\* Vec::sort: insertion into an ordered sequence
RECURSIVE InsertSorted(_, _)
InsertSorted(sorted, x) ==
    IF sorted = <<>> THEN << x >>
    ELSE IF StrLess(x, Head(sorted)) THEN << x >> \o sorted
    ELSE << Head(sorted) >> \o InsertSorted(Tail(sorted), x)

RECURSIVE sort(_)
sort(urls) ==
    IF urls = <<>> THEN <<>>
    ELSE InsertSorted(sort(Tail(urls)), Head(urls))

\* a list left as sorted, repeats included
dedup_none(urls) == urls

\* Vec::dedup: drops consecutive repeats
RECURSIVE dedup(_)
dedup(urls) ==
    IF Len(urls) <= 1 THEN urls
    ELSE IF urls[1] = urls[2] THEN dedup(Tail(urls))
    ELSE << Head(urls) >> \o dedup(Tail(urls))

\* format_ipv6: "::" for the all-zero address, else its text
format_ipv6(addr) == IF addr.zero THEN << ":", ":" >> ELSE addr.text

RECURSIVE iface_urls(_, _)
iface_urls(ifaces, port) ==
    IF ifaces = <<>> THEN <<>>
    ELSE LET ip   == Head(ifaces)
             rest == iface_urls(Tail(ifaces), port)
         IN  IF ip.loopback THEN rest
             ELSE IF ip.v = 4 THEN << Url(ip.text, port) >> \o rest
             ELSE << Url(<< "[" >> \o format_ipv6(ip) \o << "]" >>, port) >> \o rest

\* collect_accessible_urls; got is the result of if_addrs::get_if_addrs()
collect_accessible_urls(port, got) ==
    LET base == << Url(Localhost, port), Url(Loopback4, port) >>
        urls == IF got.ok THEN base \o iface_urls(got.addrs, port) ELSE base
    IN  dedup(sort(urls))

Is192(url) == starts_with(url, Prefix192)
NotLocal(url) == ~contains(url, Loopback4) /\ ~contains(url, Localhost)

\* Iterator::find: the first element satisfying the test, or <<>> for None
RECURSIVE find_192(_)
find_192(urls) ==
    IF urls = <<>> THEN <<>>
    ELSE IF Is192(Head(urls)) THEN << Head(urls) >>
    ELSE find_192(Tail(urls))

RECURSIVE find_not_local(_)
find_not_local(urls) ==
    IF urls = <<>> THEN <<>>
    ELSE IF NotLocal(Head(urls)) THEN << Head(urls) >>
    ELSE find_not_local(Tail(urls))

\* the primary_url of start
primary_url(addresses, port) ==
    LET preferred == find_192(addresses)
        other     == find_not_local(addresses)
    IN  IF preferred # <<>> THEN preferred[1]
        ELSE IF other # <<>> THEN other[1]
        ELSE Url(Loopback4, port)

\* the interfaces of the machine: lo, a wireless LAN address, a VPN address
get_if_addrs ==
    [ ok    |-> TRUE,
      addrs |-> << [ v |-> 4, loopback |-> TRUE, zero |-> FALSE, text |-> Loopback4 ],
                   [ v |-> 4, loopback |-> FALSE, zero |-> FALSE,
                     text |-> << "1", "0", ".", "0", ".", "0", ".", "2" >> ],
                   [ v |-> 4, loopback |-> FALSE, zero |-> FALSE,
                     text |-> << "1", "9", "2", ".", "1", "6", "8", ".", "1", ".", "5" >> ] >> ]

\* the FileShareSession start builds
FileShareSession(port, files) ==
    LET addresses == collect_accessible_urls(port, get_if_addrs)
        primary   == primary_url(addresses, port)
    IN  [ port        |-> port,
          addresses   |-> << primary >>,
          primary_url |-> primary,
          files       |-> SharedFileMeta(files) ]

(***************************************************************************)
(* The state: the manager's slot and its lock, the servers alive, and each *)
(* caller's position in the command it runs.                               *)
(***************************************************************************)
VARIABLES
    inner,        \* FileShareManager.inner: None or the session in the slot
    lock,         \* the holder of the tokio Mutex around inner, or None
    servers,      \* per session: its listener, server task, channel, manifest
    pc,           \* per caller: where it is in start, stop or snapshot
    mine,         \* per caller: the session its start call is creating
    taken,        \* per caller: the share guard.take() gave it
    result,       \* per caller: what the call returned
    atCall,       \* per caller: the slot when its stop call was made
    builder,      \* the manifest builds made so far, and what the last gave
    resolved,     \* an address resolution: its inputs and what it gave
    gone,         \* the source files removed since the manifests were built
    response      \* the last HTTP request handled, and its response

\* what the manager and its server tasks read and write
manager == << inner, lock, servers, pc, mine, taken, result, atCall >>

\* what the manifest builder, the address resolver and the request handlers
\* are observed through; no manager call reads or writes it
aside == << builder, resolved, gone, response >>

vars == << inner, lock, servers, pc, mine, taken, result, atCall,
           builder, resolved, gone, response >>

\* the selections a caller passes to start
StartInputs == { <<>>, << "missing" >>, << "empty" >>, << "docs", "a.txt" >> }

\* status: none; bound (a listener, no task yet); serving (the task accepts
\* connections on the listener); draining (the listener is closed, responses
\* in progress are finishing); done (the task has completed)
NoServer ==
    [ status    |-> "none",
      signal    |-> "none",   \* the oneshot channel: none, open, sent, closed
      port      |-> 0,        \* the port of the listener
      installed |-> FALSE,    \* has been put in the slot
      paths     |-> <<>> ]    \* the selection the manifest was built from

\* what start computes for each selection, session and port, computed once
Built == [ f \in StartInputs, s \in Sessions |-> build_server_files(f, s) ]
Described ==
    [ f \in StartInputs, s \in Sessions, port \in Sessions |->
        FileShareSession(port, Built[f, s].files) ]

\* HttpState.files: the manifest start built from the selection; the Arc is
\* never written after that
manifest(s) == Built[servers[s].paths, s].files

\* ActiveShare.session: built once by start from the port read back and the
\* manifest, and never changed
session(s) == Described[servers[s].paths, s, servers[s].port]

\* no manifest build has been made
NoBuild ==
    [ n       |-> 0,        \* the number of builds made
      issued  |-> {},       \* the ids the builds before the last one gave out
      entries |-> <<>>,     \* the selection of the last build
      out     |-> [ ok |-> FALSE, err |-> "", files |-> <<>> ] ]

\* what a call returned: the Result or Option, with the argument of the call
\* and whether the call took a share out of the slot
NoResult == [ arg |-> <<>>, ok |-> FALSE, err |-> "", value |-> <<>>, took |-> FALSE ]
Ok(value, took) ==
    [ arg |-> <<>>, ok |-> TRUE, err |-> "", value |-> value, took |-> took ]
Err(arg, msg) ==
    [ arg |-> arg, ok |-> FALSE, err |-> msg, value |-> <<>>, took |-> FALSE ]

Returned == { "ret_start", "ret_stop", "ret_snap" }
InProgress(p) == pc[p] \notin ({ "idle" } \cup Returned)

\* a listener that holds its port, so that peers can connect to it
Bound(s) == servers[s].status \in { "bound", "serving" }

\* session numbers no caller and no server uses
Unused == { s \in Sessions : servers[s] = NoServer /\ \A p \in Callers : mine[p] # s }

\* port 0 of bind: the OS picks a port that no live listener has
os_port(s) == s

Init ==
    /\ inner = None
    /\ lock = None
    /\ servers = [ s \in Sessions |-> NoServer ]
    /\ pc = [ p \in Callers |-> "idle" ]
    /\ mine = [ p \in Callers |-> None ]
    /\ taken = [ p \in Callers |-> None ]
    /\ result = [ p \in Callers |-> NoResult ]
    /\ atCall = [ p \in Callers |-> None ]
    /\ builder = NoBuild
    /\ resolved = <<>>
    /\ gone = {}
    /\ response = <<>>

\* srv once the frame of p's call is gone: a server whose task has completed,
\* or that never got a listener, is no more when neither the slot nor another
\* call refers to it
Release(p, slot, srv) ==
    [ s \in Sessions |->
        IF /\ srv[s].status \in { "none", "done" }
           /\ s # slot
           /\ \A q \in Callers \ { p } : s \notin { mine[q], taken[q], atCall[q] }
        THEN NoServer
        ELSE srv[s] ]

\* p's call returns res, leaving slot in the slot and srv as the servers
Returns(p, to, res, slot, srv) ==
    /\ pc' = [ pc EXCEPT ![p] = to ]
    /\ result' = [ result EXCEPT ![p] = res ]
    /\ mine' = [ mine EXCEPT ![p] = None ]
    /\ taken' = [ taken EXCEPT ![p] = None ]
    /\ atCall' = [ atCall EXCEPT ![p] = None ]
    /\ inner' = slot
    /\ servers' = Release(p, slot, srv)

\* a start that never looks at the length of the selection
is_empty_unchecked(f) == FALSE

\* files.is_empty()
is_empty(f) == f = <<>>

\* a shutdown that sends nothing on the channel and only awaits the task
send_nothing(srv) == srv

\* ActiveShare::shutdown, first half: tx.send(()) on the share's channel
send(srv) == [ srv EXCEPT !.signal = IF @ = "open" THEN "sent" ELSE @ ]

\* a shutdown that sends the signal and does not await the task
joined_at_once(srv) == TRUE

\* ActiveShare::shutdown, second half: self.handle.await is over
joined(srv) == srv.status = "done"

(***************************************************************************)
(* FileShareManager::start                                                 *)
(***************************************************************************)
\* a start that locks the slot before it builds the manifest and keeps the
\* lock across the bind
StartCall_locked(p) ==
    /\ pc[p] = "idle"
    /\ lock = None
    /\ \E f \in StartInputs :
         /\ ~is_empty(f)
         /\ Unused # {}
         /\ LET sess == CHOOSE s \in Unused : \A t \in Unused : s <= t
            IN  /\ Built[f, sess].ok
                /\ mine' = [ mine EXCEPT ![p] = sess ]
                /\ servers' = [ servers EXCEPT ![sess].paths = f ]
                /\ pc' = [ pc EXCEPT ![p] = "start_bind" ]
                /\ lock' = p
                /\ UNCHANGED << inner, taken, result, atCall >>

\* the call, the check of the selection, build_server_files, the Arc of the
\* manifest and files_meta: all of start up to TcpListener::bind(..).await
StartCall(p) ==
    /\ pc[p] = "idle"
    /\ \E f \in StartInputs :
         IF is_empty(f)
         THEN Returns(p, "ret_start", Err(f, "InvalidSelection"), inner, servers)
         ELSE /\ Unused # {}
              /\ LET sess  == CHOOSE s \in Unused : \A t \in Unused : s <= t
                     built == Built[f, sess]
                 IN  IF built.ok
                     THEN /\ mine' = [ mine EXCEPT ![p] = sess ]
                          /\ servers' = [ servers EXCEPT ![sess].paths = f ]
                          /\ pc' = [ pc EXCEPT ![p] = "start_bind" ]
                          /\ UNCHANGED << inner, taken, result, atCall >>
                     ELSE Returns(p, "ret_start", Err(f, built.err), inner, servers)
    /\ UNCHANGED lock

\* a start that takes for the port a number other than the listener's
bound_other_port(srv, port) ==
    [ srv EXCEPT !.status = "bound", !.port = (port % MaxSessions) + 1 ]

\* TcpListener::bind has given a listener on the port the OS picked
bound(srv, port) == [ srv EXCEPT !.status = "bound", !.port = port ]

\* a listener kept alive (leaked) by the error path of local_addr
local_addr_failed_leak(srv) == srv

\* what listener.local_addr() failing leaves of the listener: start returns
\* and the listener is dropped with its frame
local_addr_failed(srv) == [ srv EXCEPT !.status = "none", !.port = 0 ]

\* the server task is spawned on the listener: the router over the manifest,
\* the oneshot channel, and the session built from the port read back
spawn(srv) == [ srv EXCEPT !.status = "serving", !.signal = "open" ]

\* TcpListener::bind("0.0.0.0:0").await has completed: an error, or a
\* listener; then local_addr, the addresses, the router, the channel and the
\* spawn of the server task
StartBind(p) ==
    /\ pc[p] = "start_bind"
    /\ LET arg == servers[mine[p]].paths
           srv == bound(servers[mine[p]], os_port(mine[p]))
       IN  \/ Returns(p, "ret_start", Err(arg, "BindError"), inner, servers)
           \/ Returns(p, "ret_start", Err(arg, "PortError"), inner,
                      [ servers EXCEPT ![mine[p]] = local_addr_failed(srv) ])
           \/ /\ servers' = [ servers EXCEPT ![mine[p]] = spawn(srv) ]
              /\ pc' = [ pc EXCEPT ![p] = "start_lock" ]
              /\ UNCHANGED << inner, mine, taken, result, atCall >>
    /\ UNCHANGED lock

\* an install that returns without dropping the guard
Install_keeps_guard(p, took) ==
    /\ Returns(p, "ret_start", Ok(<< session(mine[p]) >>, took), mine[p],
               [ servers EXCEPT ![mine[p]].installed = TRUE ])
    /\ lock' = IF took THEN p ELSE None

\* *guard = Some(ActiveShare {..}); drop(guard); Ok(session): the new share
\* is in the slot, the old one (if any) is dropped, the lock is free
Install(p, took) ==
    /\ Returns(p, "ret_start", Ok(<< session(mine[p]) >>, took), mine[p],
               [ servers EXCEPT ![mine[p]].installed = TRUE ])
    /\ lock' = None

\* a start that drops its guard before it awaits the old share
guard_dropped(p) == None

\* the guard start keeps while it awaits the shutdown of the old share
guard(p) == p

\* a start that writes the new share over the old one and shuts nothing down:
\* the old share is dropped with its sender, its task detached
StartLock_overwrite(p) ==
    /\ pc[p] = "start_lock"
    /\ lock = None
    /\ Returns(p, "ret_start", Ok(<< session(mine[p]) >>, inner # None), mine[p],
               [ s \in Sessions |->
                   IF s = mine[p] THEN [ servers[s] EXCEPT !.installed = TRUE ]
                   ELSE IF s = inner THEN [ servers[s] EXCEPT !.signal = "closed" ]
                   ELSE servers[s] ])
    /\ UNCHANGED lock

\* self.inner.lock().await and guard.take(): with an empty slot the share is
\* installed at once, else the old share is signalled and awaited under the lock
StartLock(p) ==
    /\ pc[p] = "start_lock"
    /\ lock = None
    /\ IF inner = None
       THEN Install(p, FALSE)
       ELSE /\ taken' = [ taken EXCEPT ![p] = inner ]
            /\ inner' = None
            /\ lock' = guard(p)
            /\ servers' = [ servers EXCEPT ![inner] = send(@) ]
            /\ pc' = [ pc EXCEPT ![p] = "start_await" ]
            /\ UNCHANGED << mine, result, atCall >>

\* active.shutdown().await is over: install the new share
StartInstall(p) ==
    /\ pc[p] = "start_await"
    /\ joined(servers[taken[p]])
    /\ Install(p, TRUE)

(***************************************************************************)
(* FileShareManager::stop                                                  *)
(***************************************************************************)
StopCall(p) ==
    /\ pc[p] = "idle"
    /\ pc' = [ pc EXCEPT ![p] = "stop_lock" ]
    /\ atCall' = [ atCall EXCEPT ![p] = inner ]
    /\ UNCHANGED << inner, lock, servers, mine, taken, result >>

\* a stop that takes the share out of the slot and lets it go: the share is
\* dropped unsignalled and unjoined, its task detached
StopTake_drop(p) ==
    /\ pc[p] = "stop_lock"
    /\ lock = None
    /\ Returns(p, "ret_stop", Ok(<<>>, inner # None), None,
               [ s \in Sessions |->
                   IF s = inner /\ s # None
                   THEN [ servers[s] EXCEPT !.signal = "closed" ]
                   ELSE servers[s] ])
    /\ UNCHANGED lock

\* { let mut guard = self.inner.lock().await; guard.take() }: the lock is
\* released at the end of the block; then active.shutdown() sends the signal
StopTake(p) ==
    /\ pc[p] = "stop_lock"
    /\ lock = None
    /\ IF inner = None
       THEN Returns(p, "ret_stop", Ok(<<>>, FALSE), None, servers)
       ELSE /\ taken' = [ taken EXCEPT ![p] = inner ]
            /\ inner' = None
            /\ servers' = [ servers EXCEPT ![inner] = send(@) ]
            /\ pc' = [ pc EXCEPT ![p] = "stop_await" ]
            /\ UNCHANGED << mine, result, atCall >>
    /\ UNCHANGED lock

\* a stop that returns once the signal is sent, without the join
StopJoin_no_wait(p) ==
    /\ pc[p] = "stop_await"
    /\ Returns(p, "ret_stop", Ok(<<>>, TRUE), inner, servers)
    /\ UNCHANGED lock

\* active.shutdown().await is over: stop returns
StopJoin(p) ==
    /\ pc[p] = "stop_await"
    /\ joined(servers[taken[p]])
    /\ Returns(p, "ret_stop", Ok(<<>>, TRUE), inner, servers)
    /\ UNCHANGED lock

(***************************************************************************)
(* FileShareManager::snapshot                                              *)
(***************************************************************************)
SnapshotCall(p) ==
    /\ pc[p] = "idle"
    /\ pc' = [ pc EXCEPT ![p] = "snap_lock" ]
    /\ UNCHANGED << inner, lock, servers, mine, taken, result, atCall >>

\* guard.as_ref().map(|share| share.session.clone())
as_ref_map_clone(slot) == IF slot = None THEN <<>> ELSE << session(slot) >>

\* a snapshot that takes the share out of the slot
after_snapshot_take(slot) == None

\* what snapshot leaves in the slot
after_snapshot(slot) == slot

\* self.inner.lock().await, the clone of the session, and the unlock
Snapshot(p) ==
    /\ pc[p] = "snap_lock"
    /\ lock = None
    /\ Returns(p, "ret_snap", Ok(as_ref_map_clone(inner), FALSE),
               after_snapshot(inner), servers)
    /\ UNCHANGED lock

\* the caller has its answer and may make its next call
Return(p) ==
    /\ pc[p] \in Returned
    /\ pc' = [ pc EXCEPT ![p] = "idle" ]
    /\ result' = [ result EXCEPT ![p] = NoResult ]
    /\ UNCHANGED << inner, lock, servers, mine, taken, atCall >>

(***************************************************************************)
(* The server task: axum::serve(listener, router).with_graceful_shutdown   *)
(***************************************************************************)
\* a task that ends its accept loop on a signal only, and goes on serving
\* when the sender is dropped
ServerShutdown_on_signal_only(s) ==
    /\ servers[s].status = "serving"
    /\ servers[s].signal = "sent"
    /\ \/ servers' = [ servers EXCEPT ![s].status = "done" ]
       \/ servers' = [ servers EXCEPT ![s].status = "draining" ]
    /\ UNCHANGED << inner, lock, pc, mine, taken, result, atCall >>

\* shutdown_rx.await completes (a signal, or the sender dropped): the accept
\* loop ends and the listener is dropped; the task completes at once when no
\* response is in progress, and else waits for the responses
ServerShutdown(s) ==
    /\ servers[s].status = "serving"
    /\ servers[s].signal \in { "sent", "closed" }
    /\ \/ servers' = [ servers EXCEPT ![s].status = "done" ]
       \/ servers' = [ servers EXCEPT ![s].status = "draining" ]
    /\ UNCHANGED << inner, lock, pc, mine, taken, result, atCall >>

\* a task that takes up accepting again once its responses have finished
ServerDone_resume(s) ==
    /\ servers[s].status = "draining"
    /\ servers' = [ servers EXCEPT ![s].status = "serving" ]
    /\ UNCHANGED << inner, lock, pc, mine, taken, result, atCall >>

\* the last response in progress has finished: the task completes
ServerDone(s) ==
    /\ servers[s].status = "draining"
    /\ servers' = [ servers EXCEPT ![s].status = "done" ]
    /\ UNCHANGED << inner, lock, pc, mine, taken, result, atCall >>

Next ==
    \/ \E p \in Callers : StartCall(p) /\ UNCHANGED aside
    \/ \E p \in Callers : StartBind(p) /\ UNCHANGED aside
    \/ \E p \in Callers : StartLock(p) /\ UNCHANGED aside
    \/ \E p \in Callers : StartInstall(p) /\ UNCHANGED aside
    \/ \E p \in Callers : StopCall(p) /\ UNCHANGED aside
    \/ \E p \in Callers : StopTake(p) /\ UNCHANGED aside
    \/ \E p \in Callers : StopJoin(p) /\ UNCHANGED aside
    \/ \E p \in Callers : SnapshotCall(p) /\ UNCHANGED aside
    \/ \E p \in Callers : Snapshot(p) /\ UNCHANGED aside
    \/ \E p \in Callers : Return(p) /\ UNCHANGED aside
    \/ \E s \in Sessions : ServerShutdown(s) /\ UNCHANGED aside
    \/ \E s \in Sessions : ServerDone(s) /\ UNCHANGED aside

Spec == Init /\ [][Next]_vars

\* the callers make their calls one after the other: a call is made only
\* when no other call is in progress
SeqNext ==
    /\ Next
    /\ \A p \in Callers :
         (pc[p] = "idle" /\ pc'[p] # "idle") =>
             \A q \in Callers : ~InProgress(q)

SeqSpec == Init /\ [][SeqNext]_vars

\* a call in progress takes its next step: the tokio runtime polls a task
\* that can go on, and the tokio Mutex hands the lock to its waiters in the
\* order they asked for it, so that a waiter is not passed over for ever
CallStep(p) ==
    /\ \/ StartBind(p) \/ StartLock(p) \/ StartInstall(p)
       \/ StopTake(p) \/ StopJoin(p)
       \/ Snapshot(p)
    /\ UNCHANGED aside

\* the server task of session s takes its next step: it sees the end of
\* shutdown_rx.await, and the responses in progress come to their end
TaskStep(s) ==
    /\ ServerShutdown(s) \/ ServerDone(s)
    /\ UNCHANGED aside

\* the next step of p's call can be taken: ENABLED <<CallStep(p)>>_vars,
\* read off the guards of the steps
Ready(p) ==
    \/ pc[p] = "start_bind"
    \/ pc[p] \in { "start_lock", "stop_lock", "snap_lock" } /\ lock = None
    \/ pc[p] \in { "start_await", "stop_await" } /\ joined(servers[taken[p]])

\* SF_vars(CallStep(p)), with its ENABLED written as Ready(p)
FairCall(p) == <>[]~Ready(p) \/ []<><<CallStep(p)>>_vars

\* the manager under a fair scheduler; no caller has to make a call
FairSpec ==
    /\ Spec
    /\ \A p \in Callers : FairCall(p)
    /\ \A s \in Sessions : WF_vars(TaskStep(s))

(***************************************************************************)
(* The manager when the future of a start call may be dropped at one of    *)
(* its awaits after the spawn of the server task.                          *)
(***************************************************************************)
\* shutdown_tx is dropped unused: the channel is closed without a signal
drop_sender(srv) == [ srv EXCEPT !.signal = IF @ = "open" THEN "closed" ELSE @ ]

\* the future of p's start is dropped at self.inner.lock().await or at
\* active.shutdown().await: its locals are dropped, so the sender of the new
\* server is dropped unused and the JoinHandle detached, a guard it holds is
\* released, and nothing is installed
StartAbandon(p) ==
    /\ pc[p] \in { "start_lock", "start_await" }
    /\ pc' = [ pc EXCEPT ![p] = "idle" ]
    /\ lock' = IF lock = p THEN None ELSE lock
    /\ mine' = [ mine EXCEPT ![p] = None ]
    /\ taken' = [ taken EXCEPT ![p] = None ]
    /\ servers' = Release(p, inner, [ servers EXCEPT ![mine[p]] = drop_sender(@) ])
    /\ UNCHANGED << inner, result, atCall >>

DropNext ==
    \/ Next
    \/ \E p \in Callers : StartAbandon(p) /\ UNCHANGED aside

\* the runtime polls every server task, detached or not
DropSpec ==
    /\ Init
    /\ [][DropNext]_vars
    /\ \A s \in Sessions : WF_vars(TaskStep(s))

(***************************************************************************)
(* The manifest builder on its own: start's check of the selection and     *)
(* build_server_files, applied to one selection after the other.           *)
(***************************************************************************)
\* the raw paths a selection is made of: a file, a directory with a
\* subdirectory, a file inside that directory, a directory without files, a
\* path that does not exist, a directory with an entry that cannot be read,
\* a directory of files with unusual names
RawPaths == { "a.txt", "docs", "readme", "empty", "missing", "locked", "odd" }

Selections == UNION { [ 1..n -> RawPaths ] : n \in 0..MaxLen }

\* the ids of a manifest
Ids(files) == { files[i].id : i \in 1..Len(files) }

\* start up to the Arc of the manifest: the check of the selection, then
\* build_server_files(&files)?
start_manifest(files, sess) ==
    IF is_empty(files)
    THEN [ ok |-> FALSE, err |-> "InvalidSelection", files |-> <<>> ]
    ELSE build_server_files(files, sess)

\* one more start: its uuids are new, as those of Uuid::new_v4 are
Build(entries) ==
    /\ builder.n < MaxBuilds
    /\ builder' = [ n       |-> builder.n + 1,
                    issued  |-> builder.issued \cup Ids(builder.out.files),
                    entries |-> entries,
                    out     |-> start_manifest(entries, builder.n + 1) ]
    /\ UNCHANGED << manager, resolved, gone, response >>

BuildNext == \E entries \in Selections : Build(entries)

BuildSpec == Init /\ [][BuildNext]_vars

(***************************************************************************)
(* The address resolver on its own: collect_accessible_urls and the choice *)
(* of the primary URL, applied to a port and a result of get_if_addrs.     *)
(***************************************************************************)
V4(text, loopback) == [ v |-> 4, loopback |-> loopback, zero |-> FALSE, text |-> text ]
V6(text, loopback, zero) == [ v |-> 6, loopback |-> loopback, zero |-> zero, text |-> text ]

\* the interface addresses a machine may have
Interfaces ==
    { V4(Loopback4, TRUE),
      V6(<< ":", ":", "1" >>, TRUE, FALSE),
      V4(<< "1", "0", ".", "0", ".", "0", ".", "2" >>, FALSE),
      V4(<< "1", "7", "2", ".", "1", "6", ".", "0", ".", "9" >>, FALSE),
      V4(<< "1", "9", "2", ".", "1", "6", "8", ".", "1", ".", "5" >>, FALSE),
      V4(<< "1", "9", "2", ".", "0", ".", "2", ".", "1" >>, FALSE),
      V4(<< "1", "6", "9", ".", "2", "5", "4", ".", "1", ".", "1" >>, FALSE),
      V6(<< ":", ":" >>, FALSE, TRUE),
      V6(<< "f", "e", "8", "0", ":", ":", "1" >>, FALSE, FALSE) }

\* what if_addrs::get_if_addrs() may return: Err, or a list of interfaces
Enumerations ==
    { [ ok |-> FALSE, addrs |-> <<>> ] } \cup
    { [ ok |-> TRUE, addrs |-> a ] :
        a \in UNION { [ 1..n -> Interfaces ] : n \in 0..MaxIfaces } }

\* the ports bind may give
Ports == { 80, 51234 }

\* lines 181-193 of start: the address list and the primary URL
Resolve(port, got) ==
    /\ resolved = <<>>
    /\ LET addresses == collect_accessible_urls(port, got)
       IN  resolved' = << [ port      |-> port,
                            got       |-> got,
                            addresses |-> addresses,
                            primary   |-> primary_url(addresses, port) ] >>
    /\ UNCHANGED << manager, builder, gone, response >>

AddrNext == \E port \in Ports, got \in Enumerations : Resolve(port, got)

AddrSpec == Init /\ [][AddrNext]_vars

(***************************************************************************)
(* The request handlers on their own: serve_index and download_file on the *)
(* servers of two sessions, while source files are removed from the disk.  *)
(***************************************************************************)
\* Uuid::to_string: the text of an id, as it stands in the manifest and in
\* the links of the index page
to_string(id) == << "uuid" >> \o id

\* state.files.iter().find(|file| file.id == file_id): Some as <<file>>
RECURSIVE find_file(_, _)
find_file(files, file_id) ==
    IF files = <<>> THEN <<>>
    ELSE IF to_string(Head(files).id) = file_id THEN << Head(files) >>
    ELSE find_file(Tail(files), file_id)

\* File::open(path) succeeds: the file is on the disk, removed lists the
\* files deleted since
open(path, removed) == path \in RegularFiles \ removed

\* the bytes of the file at path
contents(path) == [ bytes_of |-> path ]

\* sanitize_filename: each of " \ / : * ? < > | becomes _
sanitize_filename(input) ==
    [ i \in 1..Len(input) |->
        IF input[i] \in { "\"", "\\", "/", ":", "*", "?", "<", ">", "|" }
        THEN "_"
        ELSE input[i] ]

\* the characters HeaderValue::from_str refuses: the control characters
\* other than the tab (bytes below 32, and 127)
Controls == { "\n", "\r" }

\* HeaderValue::from_str(src): Ok(value) as <<value>>, Err as <<>>
HeaderValue_from_str(src) ==
    IF \E i \in 1..Len(src) : src[i] \in Controls THEN <<>> ELSE << src >>

\* format!("attachment; filename=\"{}\"", sanitize_filename(&file.download_name))
disposition(file) ==
    << "attachment; filename=", "\"" >> \o sanitize_filename(file.download_name)
        \o << "\"" >>

\* file.mime.first_raw().unwrap_or("application/octet-stream")
mime(file) ==
    IF file.mime # <<>> THEN << file.mime[1] >> ELSE << "application/octet-stream" >>

\* the headers of the 200 response: each is inserted if its value is valid
file_headers(file) ==
    [ content_type        |-> HeaderValue_from_str(mime(file)),
      content_disposition |-> HeaderValue_from_str(disposition(file)) ]

\* the headers of (StatusCode, &str).into_response() and of Html(..)
text_headers(type) ==
    [ content_type |-> << << type >> >>, content_disposition |-> <<>> ]

\* a handler that answers a path of the file system with the file there
download_file_by_path(files, removed, file_id) ==
    IF file_id \in RegularFiles \ removed
    THEN [ status |-> 200, file |-> << contents(file_id) >>,
           text |-> "", listing |-> <<>>, headers |-> text_headers("text/plain") ]
    ELSE [ status |-> 404, file |-> <<>>, text |-> "NotFound", listing |-> <<>>,
           headers |-> text_headers("text/plain") ]

\* download_file: the response to GET /files/{file_id}
download_file(files, removed, file_id) ==
    LET found == find_file(files, file_id)
    IN  IF found # <<>>
        THEN IF open(found[1].path, removed)
             THEN [ status |-> 200, file |-> << contents(found[1].path) >>,
                    text |-> "", listing |-> <<>>,
                    headers |-> file_headers(found[1]) ]
             ELSE [ status |-> 404, file |-> <<>>,
                    text |-> "NotAvailable", listing |-> <<>>,
                    headers |-> text_headers("text/plain") ]
        ELSE [ status |-> 404, file |-> <<>>, text |-> "NotFound", listing |-> <<>>,
               headers |-> text_headers("text/plain") ]

\* serve_index: the page of GET /, one card per entry with its link
serve_index(files) ==
    [ status  |-> 200,
      file    |-> <<>>,
      text    |-> "",
      listing |-> [ i \in 1..Len(files) |->
                      [ display_name |-> files[i].display_name,
                        href         |-> << "files", to_string(files[i].id) >> ] ],
      headers |-> text_headers("text/html") ]

\* a handler that deletes the source file it has served
after_download_delete(removed, r) ==
    IF r.file = <<>> THEN removed ELSE removed \cup { r.file[1].bytes_of }

\* what a download leaves of the source files: the handler only reads
after_download(removed, r) == removed

\* the selection both sessions share
Shared == << "docs", "a.txt" >>

\* a session in the slot, and the server a second start has spawned and not
\* yet installed: both accept connections
Sharing ==
    /\ inner = 1
    /\ lock = None
    /\ servers = [ s \in Sessions |->
                     IF s = 1
                     THEN [ spawn(bound([ NoServer EXCEPT !.paths = Shared ], os_port(1)))
                              EXCEPT !.installed = TRUE ]
                     ELSE IF s = 2
                     THEN spawn(bound([ NoServer EXCEPT !.paths = Shared ], os_port(2)))
                     ELSE NoServer ]
    /\ pc = [ p \in Callers |-> IF p = 1 THEN "start_lock" ELSE "idle" ]
    /\ mine = [ p \in Callers |-> IF p = 1 THEN 2 ELSE None ]
    /\ taken = [ p \in Callers |-> None ]
    /\ result = [ p \in Callers |-> NoResult ]
    /\ atCall = [ p \in Callers |-> None ]

HttpInit ==
    /\ Sharing
    /\ builder = NoBuild
    /\ resolved = <<>>
    /\ gone = {}
    /\ response = <<>>

\* what a client may put after /files/: the ids of the two sessions, an id
\* no session has, the path of a shared file, a traversal to it, its name
Requests ==
    { to_string(Built[Shared, s].files[i].id) :
        s \in { 1, 2 }, i \in 1..Len(Built[Shared, 1].files) } \cup
    { to_string(<< 0, 0 >>),
      HomeDir \o << "a.txt" >>,
      << "..", "..", "home", "a.txt" >>,
      << "a.txt" >> }

\* the files that are deleted while the sessions serve: the source files of
\* the manifests, and a file no session shares
Removable ==
    { Built[Shared, 1].files[i].path : i \in 1..Len(Built[Shared, 1].files) }
        \cup { HomeDir \o << "locked", "ok.txt" >> }

\* a source file is deleted from the disk
Vanish(f) ==
    /\ f \in RegularFiles \ gone
    /\ gone' = gone \cup { f }
    /\ UNCHANGED << manager, builder, resolved, response >>

\* GET /files/{x} on the server of session s
Download(s, x) ==
    /\ servers[s].status = "serving"
    /\ LET r == download_file(manifest(s), gone, x)
       IN  /\ response' = << [ server |-> s, request |-> x, status |-> r.status,
                               file |-> r.file, text |-> r.text,
                               listing |-> r.listing, headers |-> r.headers ] >>
           /\ gone' = after_download(gone, r)
    /\ UNCHANGED << manager, builder, resolved >>

\* GET / on the server of session s
Index(s) ==
    /\ servers[s].status = "serving"
    /\ LET r == serve_index(manifest(s))
       IN  response' = << [ server |-> s, request |-> << "/" >>, status |-> r.status,
                            file |-> r.file, text |-> r.text,
                            listing |-> r.listing, headers |-> r.headers ] >>
    /\ UNCHANGED << manager, builder, resolved, gone >>

HttpNext ==
    \/ \E f \in Removable : Vanish(f)
    \/ \E s \in Sessions, x \in Requests : Download(s, x)
    \/ \E s \in Sessions : Index(s)

HttpSpec == HttpInit /\ [][HttpNext]_vars

(***************************************************************************)
(* The download handler on the manifests the builder gives: each selection *)
(* is built as start builds it, and the entries of the manifest are asked  *)
(* for by their ids.                                                       *)
(***************************************************************************)
\* the ids a client may know: those of the manifest last built, those of
\* the manifests built before it, and one that no manifest has
KnownIds == Ids(builder.out.files) \cup builder.issued \cup { << 0, 0 >> }

\* GET /files/{id} on the server that serves the manifest last built
Fetch(id) ==
    /\ builder.out.ok
    /\ LET x == to_string(id)
           r == download_file(builder.out.files, gone, x)
       IN  response' = << [ server |-> builder.n, request |-> x, status |-> r.status,
                            file |-> r.file, text |-> r.text,
                            listing |-> r.listing, headers |-> r.headers ] >>
    /\ UNCHANGED << manager, builder, resolved, gone >>

ServeNext ==
    \/ \E entries \in Selections : Build(entries)
    \/ \E id \in KnownIds : Fetch(id)

ServeSpec == Init /\ [][ServeNext]_vars

(***************************************************************************)
(* Properties of the session manager                                       *)
(***************************************************************************)
BoundSessions == { s \in Sessions : Bound(s) }

\* p's call returns in this step
Returning(p, to) == pc[p] # to /\ pc'[p] = to

\* C1: under any interleaving of start and stop calls, at most one
\* listener/port is bound at any instant, also during a replacing start.
C1_AtMostOneListener == Cardinality(BoundSessions) <= 1

\* C1, as the code has it: every bound listener is the one of the share in
\* the slot, or the one a start in progress has bound and not yet installed;
\* a share that a stop or start in progress took out of the slot may still
\* hold its listener until its task has seen the signal. So with no call in
\* progress at most one listener is bound.
C1_ListenersAccounted ==
    \A s \in BoundSessions :
        \/ s = inner
        \/ \E p \in Callers : InProgress(p) /\ s = mine[p] /\ ~servers[s].installed
        \/ \E p \in Callers :
             /\ pc[p] \in { "start_await", "stop_await" }
             /\ s = taken[p]
             /\ servers[s].signal = "sent"

\* two listeners at once: the slot's, and the one of a start waiting to
\* replace it
C1_Witness ==
    \E p \in Callers :
        /\ pc[p] = "start_lock"
        /\ inner # None
        /\ Bound(inner)
        /\ Bound(mine[p])
        /\ Cardinality(BoundSessions) = 2

\* C2: calls made one after the other; a start that finds a share in the
\* slot returns success only when that share has been signalled and its task
\* has completed (so its listener is closed), and the new share is put in the
\* slot in that returning step, not before; the slot does not change between
\* the call and the lock step.
C2_OldShutDownBeforeInstall ==
    [][ \A p \in Callers :
          /\ (pc[p] \in { "start_bind", "start_lock" } /\ pc'[p] \in { "start_bind", "start_lock" })
                => inner' = inner
          /\ (pc[p] \in { "start_lock", "start_await" } /\ pc'[p] = "ret_start")
                => LET old == IF pc[p] = "start_lock" THEN inner ELSE taken[p]
                   IN  /\ result'[p].ok
                       /\ inner' = mine[p]
                       /\ old # None =>
                            /\ inner # mine[p]
                            /\ servers[old].signal = "sent"
                            /\ servers[old].status = "done"
                            /\ ~Bound(old)
                            /\ result'[p].took
                            /\ \A s \in Sessions \ { mine[p] } : ~Bound(s)' ]_vars

\* a start has replaced a share and returned
C2_Witness ==
    \E p \in Callers :
        /\ pc[p] = "ret_start"
        /\ result[p].ok
        /\ result[p].took
        /\ inner # None
        /\ result[p].value = << session(inner) >>

\* C3: under any interleaving of start, stop and snapshot calls, a start
\* never returns success while the server of a previously installed session
\* still accepts connections.
C3_NoSuccessWhileOldReachable ==
    [][ \A p \in Callers :
          (Returning(p, "ret_start") /\ result'[p].ok) =>
              \A s \in Sessions \ { mine[p] } :
                  servers[s].installed => servers[s].status # "serving" ]_vars

\* C4: a start that fails leaves the slot and the lock as they were, leaves
\* every other server (the one in the slot included) exactly as it was, with
\* the status, the selection and the port its descriptor is made of, and
\* leaves no listener and no task of its own; it fails before it asks for
\* the lock.
C4_FailedStartChangesNothing ==
    [][ \A p \in Callers :
          (Returning(p, "ret_start") /\ ~result'[p].ok) =>
              /\ pc[p] \in { "idle", "start_bind" }
              /\ result'[p].err \in
                   { "InvalidSelection", "EmptySelection", "FileSystemError",
                     "BindError", "PortError" }
              /\ inner' = inner
              /\ lock' = lock
              /\ \A s \in Sessions \ { mine[p] } : servers'[s] = servers[s]
              /\ inner # None =>
                   /\ servers'[inner].status = servers[inner].status
                   /\ servers'[inner].paths = servers[inner].paths
                   /\ servers'[inner].port = servers[inner].port
              /\ mine[p] # None => servers'[mine[p]] = NoServer
              /\ BoundSessions' = BoundSessions ]_vars

\* a start failed at local_addr while a session is active and serving
C4_Witness ==
    \E p \in Callers :
        /\ pc[p] = "ret_start"
        /\ result[p].err = "PortError"
        /\ inner # None
        /\ servers[inner].status = "serving"

\* C5: start with an empty selection returns InvalidSelection in its first
\* step, with the slot, the lock and every server unchanged (no listener, no
\* task), whether the slot is empty or not; no start with an empty selection
\* gets as far as bind.
C5_EmptySelectionBindsNothing ==
    [][ \A p \in Callers :
          /\ (Returning(p, "ret_start") /\ result'[p].arg = <<>> /\ ~result'[p].ok) =>
                /\ pc[p] = "idle"
                /\ result'[p].err = "InvalidSelection"
                /\ UNCHANGED << inner, lock, servers >>
          /\ mine'[p] # None => servers'[mine'[p]].paths # <<>> ]_vars

\* start([]) has failed while a session is active
C5_Witness ==
    \E p \in Callers :
        /\ pc[p] = "ret_start"
        /\ result[p].err = "InvalidSelection"
        /\ inner # None
        /\ Bound(inner)

\* C6: calls made one after the other; a stop that finds a share signals it
\* and returns when its task has completed, leaving the slot empty; a stop
\* that finds the slot empty returns in that step, changes no server (sends
\* no signal) and leaves the slot empty; a snapshot of the empty slot
\* returns none.
C6_StopIdempotent ==
    [][ \A p \in Callers :
          /\ (pc[p] = "stop_lock" /\ pc'[p] # "stop_lock") =>
                /\ inner = atCall[p]
                /\ inner' = None
                /\ IF inner = None
                   THEN /\ pc'[p] = "ret_stop"
                        /\ ~result'[p].took
                        /\ servers' = servers
                   ELSE /\ pc'[p] = "stop_await"
                        /\ servers'[inner].signal = "sent"
          /\ Returning(p, "ret_stop") =>
                /\ result'[p].ok
                /\ inner' = None
                /\ pc[p] = "stop_await" =>
                     /\ servers[taken[p]].status = "done"
                     /\ BoundSessions' = {}
          /\ (Returning(p, "ret_snap") /\ inner = None) =>
                /\ result'[p].value = <<>>
                /\ inner' = None ]_vars

\* a stop that shut a share down, then a stop that found nothing to do
C6_Witness ==
    \E p, q \in Callers :
        /\ p # q
        /\ pc[q] = "ret_stop" /\ result[q].took
        /\ pc[p] = "ret_stop" /\ ~result[p].took
        /\ inner = None

\* C7: whenever a stop returns, also one concurrent with another stop or a
\* start, the server of the session that was in the slot when the stop was
\* called has completed its task.
C7_StopMeansStopped ==
    [][ \A p \in Callers :
          (Returning(p, "ret_stop") /\ atCall[p] # None) =>
              servers[atCall[p]].status = "done" ]_vars

\* C8: the snapshot step changes neither the slot nor the lock nor any
\* server (status, signal, port, manifest), and returns none for an empty
\* slot and the session of the share in the slot otherwise.
C8_SnapshotReadOnly ==
    [][ \A p \in Callers :
          /\ pc[p] = "snap_lock" => pc'[p] \in { "snap_lock", "ret_snap" }
          /\ Returning(p, "ret_snap") =>
                /\ UNCHANGED << inner, lock, servers >>
                /\ result'[p].ok
                /\ result'[p].value =
                      IF inner = None THEN <<>> ELSE << session(inner) >>
                /\ inner # None =>
                      manifest(inner) = Built[servers'[inner].paths, inner].files ]_vars

\* a snapshot has returned the session of the share in the slot
C8_Witness ==
    \E p \in Callers :
        /\ pc[p] = "ret_snap"
        /\ inner # None
        /\ servers[inner].status = "serving"
        /\ result[p].value = << session(inner) >>

\* C9: a snapshot never waits for a response in progress: no snapshot waits
\* for the lock while the lock's holder waits for a server that is finishing
\* its responses.
C9_SnapshotNeverWaitsForNetwork ==
    \A p \in Callers :
        pc[p] = "snap_lock" =>
            ~ \E q \in Callers :
                /\ lock = q
                /\ pc[q] = "start_await"
                /\ servers[taken[q]].status = "draining"

\* C10: the empty slot between the take and the install of a replacing start
\* is never read: a start in that window holds the lock, and a snapshot that
\* returns none does so when no start is in the window; a snapshot that
\* returns a session returns the one in the slot.
C10_WindowNotObservable ==
    [][ \A p \in Callers :
          /\ pc'[p] = "start_await" => (lock' = p /\ inner' = None)
          /\ Returning(p, "ret_snap") =>
                /\ result'[p].value = <<>> =>
                      \A q \in Callers : pc[q] # "start_await"
                /\ result'[p].value # <<>> =>
                      (inner # None /\ result'[p].value = << session(inner) >>) ]_vars

\* a snapshot waits for the lock while a start is between take and install
C10_Witness ==
    \E p, q \in Callers :
        /\ pc[p] = "snap_lock"
        /\ pc[q] = "start_await"
        /\ lock = q
        /\ inner = None

\* a start or stop call is between its call and its return
Changing(p) == InProgress(p) /\ pc[p] # "snap_lock"

\* the servers whose accept loop runs
Serving == { s \in Sessions : servers[s].status = "serving" }

\* C11: whenever no start and no stop call is in progress, the servers that
\* accept connections are exactly the one in the slot (none when the slot is
\* empty), and no server task is left that has not completed; at any time a
\* server that accepts connections is in the slot, or has been signalled, or
\* is the one a start in progress has spawned and not yet installed.
C11_LeakFree ==
    /\ (\A p \in Callers : ~Changing(p)) =>
          /\ Serving = (IF inner = None THEN {} ELSE { inner })
          /\ \A s \in Sessions \ { inner } : servers[s] = NoServer
    /\ \A s \in Serving :
          \/ s = inner
          \/ servers[s].signal = "sent"
          \/ \E p \in Callers : Changing(p) /\ mine[p] = s

\* a start replaced a session and a stop removed the new one, all calls have
\* returned, and nothing is left
C11_Witness ==
    /\ \A p \in Callers : ~InProgress(p)
    /\ \E p, q \in Callers :
          /\ pc[p] = "ret_start" /\ result[p].ok /\ result[p].took
          /\ pc[q] = "ret_stop" /\ result[q].took
    /\ inner = None
    /\ Serving = {}

\* C12: a start that returns success leaves in the slot a serving session
\* and returns that session's descriptor, whose port is the port of the
\* session's listener; a snapshot of a non-empty slot returns the same
\* descriptor; and as long as the slot holds the same session (no start or
\* stop has taken it), the selection and the port the descriptor is made of
\* do not change and the session keeps serving.
C12_DescriptorOfSlot ==
    [][ \A p \in Callers :
          /\ (Returning(p, "ret_start") /\ result'[p].ok) =>
                /\ inner' # None
                /\ servers'[inner'].status = "serving"
                /\ servers'[inner'].port = os_port(inner')
                /\ result'[p].value =
                     << Described[servers'[inner'].paths, inner', os_port(inner')] >>
                /\ result'[p].value[1].port = os_port(inner')
          /\ (Returning(p, "ret_snap") /\ inner # None) =>
                result'[p].value =
                    << Described[servers[inner].paths, inner, os_port(inner)] >>
          /\ (inner # None /\ inner' = inner) =>
                /\ servers'[inner].paths = servers[inner].paths
                /\ servers'[inner].port = servers[inner].port
                /\ servers'[inner].status = "serving" ]_vars

\* a start has returned a descriptor, and a snapshot has returned the same
\* one, with the port of the listener in the slot
C12_Witness ==
    \E p, q \in Callers :
        /\ pc[p] = "ret_start" /\ result[p].ok
        /\ pc[q] = "ret_snap"
        /\ inner # None
        /\ result[q].value = result[p].value
        /\ result[q].value = << session(inner) >>
        /\ result[q].value[1].port = os_port(inner)
        /\ Bound(inner)

(***************************************************************************)
(* Properties of the manifest builder                                      *)
(***************************************************************************)
\* the directories whose entries cannot be read
Unreadable == { HomeDir \o <<"locked", "private">> }

IsPrefix(a, b) == Len(a) <= Len(b) /\ SubSeq(b, 1, Len(a)) = a

\* the regular files below a directory, at any depth
FilesUnder(dir) == { f \in RegularFiles : Len(f) > Len(dir) /\ IsPrefix(dir, f) }

\* a raw path that exists and can be read through
Valid(raw) ==
    /\ canonicalize(raw) # <<>>
    /\ \A u \in Unreadable : ~IsPrefix(canonicalize(raw), u)

\* the regular files a selection of valid paths designates, each as often as
\* it is selected
RECURSIVE Discovered(_)
Discovered(entries) ==
    IF entries = <<>> THEN 0
    ELSE LET c == canonicalize(Head(entries))
         IN  (IF c \in RegularFiles THEN 1 ELSE Cardinality(FilesUnder(c)))
               + Discovered(Tail(entries))

AllValid(entries) == \A i \in 1..Len(entries) : Valid(entries[i])

\* C15: the ids of one manifest are pairwise different, also when a file is
\* selected twice or with its directory, and none of them is an id of an
\* earlier build, also when the same paths are built again.
C15_IdsUnique ==
    LET files == builder.out.files
    IN  /\ \A i, j \in 1..Len(files) : i # j => files[i].id # files[j].id
        /\ Cardinality(Ids(files)) = Len(files)
        /\ Ids(files) \cap builder.issued = {}

\* the second build of a directory together with a file inside it, after a
\* first build that gave as many ids
C15_Witness ==
    /\ builder.n = 2
    /\ builder.entries = << "docs", "readme" >>
    /\ builder.out.ok
    /\ Len(builder.out.files) = 3
    /\ builder.out.files[1].path = builder.out.files[3].path
    /\ Cardinality(builder.issued) = 3

FilelessInputs ==
    { f \in StartInputs : f # <<>> /\ AllValid(f) /\ Discovered(f) = 0 }

\* C17: every session that has got as far as a listener was built from a
\* selection that designates at least one regular file, every descriptor
\* returned by start or snapshot has a non-empty files list, and a start on
\* a selection of valid paths without any regular file has returned
\* EmptySelection.
C17_ManifestNeverEmpty ==
    /\ \A s \in Sessions :
          /\ servers[s].status # "none" => servers[s].paths # <<>>
          /\ servers[s].paths # <<>> => Discovered(servers[s].paths) > 0
    /\ \A p \in Callers :
          /\ (result[p].ok /\ result[p].value # <<>>) =>
                Len(result[p].value[1].files) > 0
          /\ (pc[p] = "ret_start" /\ result[p].arg \in FilelessInputs) =>
                (~result[p].ok /\ result[p].err = "EmptySelection")

\* a start on an empty directory has failed while a session is active
C17_Witness ==
    \E p \in Callers :
        /\ pc[p] = "ret_start"
        /\ result[p].arg = << "empty" >>
        /\ result[p].err = "EmptySelection"
        /\ inner # None
        /\ Len(manifest(inner)) > 0

\* C18: a selection with a path that does not resolve, or with a directory
\* that has an entry that cannot be read, fails as a whole with
\* FileSystemError and gives no manifest, wherever the path stands in the
\* selection; a build that succeeds had only valid paths and has every file
\* they designate.
C18_FailFast ==
    /\ (builder.n > 0 /\ ~AllValid(builder.entries)) =>
          /\ ~builder.out.ok
          /\ builder.out.err = "FileSystemError"
          /\ builder.out.files = <<>>
    /\ builder.out.ok =>
          /\ AllValid(builder.entries)
          /\ Len(builder.out.files) = Discovered(builder.entries)
    /\ ~builder.out.ok => builder.out.files = <<>>

\* a file, then a directory with an unreadable entry after a readable file
C18_Witness ==
    /\ builder.entries = << "a.txt", "locked" >>
    /\ ~builder.out.ok
    /\ builder.out.err = "FileSystemError"
    /\ builder.out.files = <<>>

(***************************************************************************)
(* Properties of the address resolver                                      *)
(***************************************************************************)
\* the URL of an interface address; an IPv6 address stands in brackets
UrlOf(ip, port) ==
    IF ip.v = 4 THEN Url(ip.text, port)
    ELSE Url(<< "[" >> \o ip.text \o << "]" >>, port)

Range(seq) == { seq[i] : i \in 1..Len(seq) }

\* C19: for every port and every result of the enumeration, the address
\* list holds the 127.0.0.1 and the localhost URL, the URL of every
\* interface address that is not a loopback address, and nothing else (so
\* no URL of a loopback interface other than the two fixed ones); it is
\* strictly increasing in byte order, so sorted and without repeats; when
\* the enumeration fails it is exactly the two loopback URLs.
C19_AddressList ==
    \A i \in 1..Len(resolved) :
        LET r    == resolved[i]
            base == { Url(Loopback4, r.port), Url(Localhost, r.port) }
            ips  == { ip \in Range(r.got.addrs) : r.got.ok /\ ~ip.loopback }
        IN  /\ Range(r.addresses) = base \cup { UrlOf(ip, r.port) : ip \in ips }
            /\ \A j, k \in 1..Len(r.addresses) :
                  j < k => StrLess(r.addresses[j], r.addresses[k])
            /\ \A ip \in Range(r.got.addrs) :
                  (ip.loopback /\ UrlOf(ip, r.port) \notin base) =>
                      UrlOf(ip, r.port) \notin Range(r.addresses)
            /\ ~r.got.ok =>
                  r.addresses = << Url(Loopback4, r.port), Url(Localhost, r.port) >>

\* the same interface reported twice, after a loopback one
C19_Witness ==
    \E i \in 1..Len(resolved) :
        LET r == resolved[i]
        IN  /\ r.got.ok
            /\ Len(r.got.addrs) = 2
            /\ r.got.addrs[1] = r.got.addrs[2]
            /\ ~r.got.addrs[1].loopback
            /\ Len(r.addresses) = 3

Dot == << "." >>

\* the URLs of the addresses in 10/8, 172.16/12 and 192.168/16
PrivateUrl(url) ==
    \/ starts_with(url, HttpPrefix \o << "1", "0" >> \o Dot)
    \/ starts_with(url, HttpPrefix \o << "1", "9", "2" >> \o Dot \o << "1", "6", "8" >> \o Dot)
    \/ \E n \in 16..31 :
         starts_with(url, HttpPrefix \o << "1", "7", "2" >> \o Dot \o Decimal(n) \o Dot)

LocalUrl(url) == contains(url, Loopback4) \/ contains(url, Localhost)

\* C20: whenever the address list holds the URL of a private-range IPv4
\* address the primary URL is such a URL, and when it holds only 127.0.0.1
\* and localhost URLs the primary URL is the 127.0.0.1 one.
C20_PrimaryPrefersPrivate ==
    \A i \in 1..Len(resolved) :
        LET r == resolved[i]
        IN  /\ (\E u \in Range(r.addresses) : PrivateUrl(u)) => PrivateUrl(r.primary)
            /\ (\A u \in Range(r.addresses) : LocalUrl(u)) =>
                  r.primary = Url(Loopback4, r.port)

(***************************************************************************)
(* Properties of the request handlers                                      *)
(***************************************************************************)
\* the entries of session s whose id has the text x
EntriesWithId(s, x) ==
    { i \in 1..Len(manifest(s)) : << "uuid" >> \o manifest(s)[i].id = x }

\* C13: GET /files/{x} on a session's server answers 200 exactly when an
\* entry of that session's manifest has the id x and its source file is
\* still on the disk, and the body then is the content of that entry's
\* file; for every other x (an id no session has, an id of the other
\* session, a path, a traversal, an entry whose file is gone) it answers
\* 404 without file content.
C13_DownloadByIdOnly ==
    [][ (response' # response /\ response'[1].request # << "/" >>) =>
          LET r    == response'[1]
              hits == { i \in EntriesWithId(r.server, r.request) :
                          manifest(r.server)[i].path \in RegularFiles \ gone }
          IN  /\ r.status \in { 200, 404 }
              /\ r.status = 200 <=> hits # {}
              /\ r.status = 200 =>
                    \E i \in hits :
                        r.file = << [ bytes_of |-> manifest(r.server)[i].path ] >>
              /\ r.status = 404 => r.file = <<>>
              /\ r.request \notin { << "uuid" >> \o manifest(r.server)[i].id :
                                     i \in 1..Len(manifest(r.server)) }
                    => r.status = 404 ]_vars

\* a download of an entry of the installed session, answered with its file,
\* while another source file is gone
C13_Witness ==
    /\ response # <<>>
    /\ response[1].server = inner
    /\ response[1].status = 200
    /\ EntriesWithId(inner, response[1].request) # {}
    /\ response[1].file # <<>>
    /\ gone # {}

\* C14: a request handled (index, download, 404) leaves the slot, the lock,
\* every server with its manifest and descriptor, and the files on the disk
\* as they were, so that every request on every session gets after it the
\* answer it would have got before it.
C14_HandlersChangeNothing ==
    [][ response' # response =>
          /\ UNCHANGED << inner, lock, servers, pc, mine, taken, result, atCall >>
          /\ gone' = gone
          /\ \A s \in Serving :
                /\ Built[servers'[s].paths, s].files = manifest(s)
                /\ Described[servers'[s].paths, s, servers'[s].port] = session(s)
                /\ \A x \in Requests :
                      download_file(Built[servers'[s].paths, s].files, gone', x)
                          = download_file(manifest(s), gone, x) ]_vars

\* a 404 for an entry whose file is gone, with both sessions still serving
C14_Witness ==
    /\ response # <<>>
    /\ response[1].status = 404
    /\ response[1].text = "NotAvailable"
    /\ inner # None
    /\ Cardinality(Serving) = 2
    /\ \E x \in Requests : download_file(manifest(inner), gone, x).status = 200

(***************************************************************************)
(* Properties of the descriptor                                            *)
(***************************************************************************)
\* C21: the addresses of every descriptor returned by start or snapshot are
\* the list the address resolver gives for the descriptor's port, with the
\* localhost and 127.0.0.1 URLs and the URL of every interface that is not
\* loopback, and the primary URL is one of them.
C21_AddressesAreResolverList ==
    \A p \in Callers :
        (result[p].ok /\ result[p].value # <<>>) =>
            LET d == result[p].value[1]
            IN  /\ d.addresses = collect_accessible_urls(d.port, get_if_addrs)
                /\ Url(Localhost, d.port) \in Range(d.addresses)
                /\ Url(Loopback4, d.port) \in Range(d.addresses)
                /\ d.primary_url \in Range(d.addresses)

(***************************************************************************)
(* Properties of the lock                                                  *)
(***************************************************************************)
\* C22: start does not hold the slot lock while it builds the manifest or
\* binds: the lock is held only by a start that has taken the old share out
\* of the slot and awaits its shutdown before it installs the new one; so a
\* snapshot or a stop that asks for the lock during the build or the bind of
\* a start finds the lock free, or held by another call in its replace step,
\* and is never kept waiting by a call that builds or binds.
C22_LockOnlyForReplace ==
    /\ lock \in Callers \cup { None }
    /\ \A p \in Callers :
          /\ pc[p] \in { "idle", "start_bind", "start_lock" } \cup Returned => lock # p
          /\ lock = p => (pc[p] = "start_await" /\ taken[p] # None /\ inner = None)
    /\ \A q \in Callers :
          (pc[q] \in { "snap_lock", "stop_lock" } /\ lock # None) =>
              /\ lock # q
              /\ pc[lock] = "start_await"
              /\ servers[taken[lock]].signal = "sent"

\* a start is at its bind, a session is in the slot, and a snapshot or a
\* stop asks for the lock and finds it free
C22_Witness ==
    \E p, q \in Callers :
        /\ pc[p] = "start_bind"
        /\ pc[q] \in { "snap_lock", "stop_lock" }
        /\ inner # None
        /\ lock = None

(***************************************************************************)
(* Properties of the execution of the manifest build                       *)
(***************************************************************************)
\* the task that executes build_server_files for a start of caller p:
\* start calls it as a plain function, so it runs on the task that runs
\* start, from the call to the Result, without a point of suspension
build_task(p) == p

\* the step of p's start in which its manifest build runs: the build gives
\* the manifest the start goes on to bind with, or the error it returns
Builds(p) ==
    /\ pc[p] = "idle"
    /\ \/ pc'[p] = "start_bind"
       \/ /\ pc'[p] = "ret_start"
          /\ result'[p].err \in { "EmptySelection", "FileSystemError" }

\* C23: the manifest build of a start runs on a worker other than the task
\* that runs start: in the step in which the directories of p's start are
\* walked, the task that walks them is not the one that runs p's start.
C23_BuildOnSeparateWorker ==
    [][ \A p \in Callers : Builds(p) => build_task(p) # p ]_vars

(***************************************************************************)
(* Properties of the server task                                           *)
(***************************************************************************)
\* the task of s has seen the end of shutdown_rx.await
Delivered(s) == servers[s].status \in { "draining", "done" }

Awaiting(p) == pc[p] \in { "start_await", "stop_await" }

\* C25: a server is signalled at most once, in the step in which one call (a
\* stop or a replacing start) takes its share out of the slot, and by no other
\* step; the share in the slot has an unsignalled channel; no channel is ever
\* dropped unsignalled; a share leaves the slot only by being taken by a call
\* that signals it, and that call goes on only when the share's task has
\* completed; no two calls hold the same share.
C25_SignalledOnceAfterRemoval ==
    [][ /\ \A s \in Sessions :
             /\ s = inner => (servers[s].signal = "open" /\ servers[s].installed)
             /\ servers[s].signal # "closed"
             /\ (servers[s].signal # "sent" /\ servers'[s].signal = "sent") =>
                  /\ servers[s].signal = "open"
                  /\ inner = s
                  /\ inner' = None
                  /\ Cardinality({ p \in Callers : taken[p] = None /\ taken'[p] = s }) = 1
             /\ servers[s].signal = "sent" =>
                  /\ servers'[s].signal \in { "sent", "none" }
                  /\ inner' # s
                  /\ Cardinality({ p \in Callers : taken[p] = s }) <= 1
        /\ \A p \in Callers :
             /\ taken[p] # None <=> Awaiting(p)
             /\ taken[p] # None => servers[taken[p]].signal = "sent"
             /\ (Awaiting(p) /\ ~Awaiting(p)') =>
                  /\ servers[taken[p]].status = "done"
                  /\ servers[taken[p]].signal = "sent"
        /\ (inner # None /\ inner' # inner) =>
             /\ inner' = None
             /\ servers'[inner].signal = "sent"
             /\ \E p \in Callers : taken'[p] = inner /\ Awaiting(p)' ]_vars

\* two stops race for the same share: both were called while it was in the
\* slot, one has taken and signalled it and awaits its task, the other is
\* about to find the slot empty
C25_Witness ==
    \E p, q \in Callers :
        /\ p # q
        /\ pc[p] = "stop_await"
        /\ servers[taken[p]].signal = "sent"
        /\ pc[q] = "stop_lock"
        /\ atCall[q] = taken[p]
        /\ inner = None

(***************************************************************************)
(* Properties of the names in the manifest                                 *)
(***************************************************************************)
\* the components of a relative path with a '/' between them, each name as
\* it is
RECURSIVE SlashPath(_)
SlashPath(path) ==
    IF path = <<>> THEN <<>>
    ELSE IF Len(path) = 1 THEN to_str(path[1])
    ELSE to_str(path[1]) \o << "/" >> \o SlashPath(Tail(path))

\* the regular files found under a directory, in the order of the walk
Found(dir) == SelectSeq(WalkDir(dir), LAMBDA f : f \in RegularFiles)

\* the display and download names a selection of valid paths should give:
\* the leaf name twice for a selected file; for a file under a selected
\* directory the label, a '/', the relative path, and the leaf name
RECURSIVE ExpectedNames(_)
ExpectedNames(entries) ==
    IF entries = <<>> THEN <<>>
    ELSE LET c == canonicalize(Head(entries))
             leaf(f) == to_str(f[Len(f)])
         IN  (IF c \in RegularFiles
              THEN << [ display |-> leaf(c), download |-> leaf(c) ] >>
              ELSE [ i \in 1..Len(Found(c)) |->
                       [ display  |-> leaf(c) \o << "/" >> \o
                             SlashPath(SubSeq(Found(c)[i], Len(c) + 1, Len(Found(c)[i]))),
                         download |-> leaf(Found(c)[i]) ] ])
             \o ExpectedNames(Tail(entries))

\* C26: in every manifest built, the entry of a selected regular file has
\* its leaf name as display name and as download name, and the entry of a
\* regular file under a selected directory has as display name the label of
\* the directory, a '/', and its path relative to the directory with '/'
\* between the components, and as download name its leaf name; sharing docs
\* gives exactly docs/readme.txt and docs/sub/note.txt.
C26_NamesOfEntries ==
    builder.out.ok =>
        /\ [ i \in 1..Len(builder.out.files) |->
               [ display  |-> builder.out.files[i].display_name,
                 download |-> builder.out.files[i].download_name ] ]
             = ExpectedNames(builder.entries)
        /\ builder.entries = << "docs" >> =>
             /\ Len(builder.out.files) = 2
             /\ builder.out.files[1].display_name = << "docs", "/", "readme.txt" >>
             /\ builder.out.files[2].display_name =
                    << "docs", "/", "sub", "/", "note.txt" >>
             /\ builder.out.files[2].download_name = << "note.txt" >>

(***************************************************************************)
(* Properties of the response headers                                      *)
(***************************************************************************)
\* the characters that are unsafe in a path or in a header value
UnsafeChars == { "\"", "\\", "/", ":", "*", "?", "<", ">", "|", "\n", "\r" }

\* C27: every 200 response to GET /files/{id} has a Content-Disposition
\* header attachment; filename="<name>", where <name> is the download name
\* of the entry with each unsafe character replaced and every other
\* character kept, whatever the download name (quotes, backslashes, control
\* characters), and a Content-Type that is the MIME guess of the entry, or
\* application/octet-stream when there is none.
C27_DownloadHeaders ==
    (response # <<>> /\ response[1].server = builder.n /\ response[1].status = 200) =>
        \E i \in 1..Len(builder.out.files) :
            LET file == builder.out.files[i]
                h    == response[1].headers
                n    == Len(file.download_name)
            IN  /\ to_string(file.id) = response[1].request
                /\ h.content_disposition # <<>>
                /\ Len(h.content_disposition[1]) = n + 3
                /\ SubSeq(h.content_disposition[1], 1, 2)
                       = << "attachment; filename=", "\"" >>
                /\ h.content_disposition[1][n + 3] = "\""
                /\ \A k \in 1..n :
                      LET c == h.content_disposition[1][k + 2]
                      IN  /\ c \notin UnsafeChars
                          /\ file.download_name[k] \notin UnsafeChars =>
                                c = file.download_name[k]
                /\ h.content_type =
                     << IF file.mime # <<>> THEN << file.mime[1] >>
                        ELSE << "application/octet-stream" >> >>

(***************************************************************************)
(* Properties of the descriptor's files list                               *)
(***************************************************************************)
\* the source files a selection of valid paths designates, in the order of
\* the selection, those of a directory in the order of its walk
RECURSIVE ExpectedPaths(_)
ExpectedPaths(entries) ==
    IF entries = <<>> THEN <<>>
    ELSE LET c == canonicalize(Head(entries))
         IN  (IF c \in RegularFiles THEN << c >> ELSE Found(c))
                 \o ExpectedPaths(Tail(entries))

\* C28: for every session that serves, the files list of its descriptor has
\* the length of the manifest its server serves and, entry by entry, the
\* same id and names; the entries stand in the order of the input paths;
\* the ids are pairwise different; and a GET /files/{x} on the session's
\* server finds an entry exactly when x is the id of an entry of the
\* session's descriptor.
C28_DescriptorListsManifest ==
    /\ \A s \in Serving :
          LET d  == session(s).files
              mf == manifest(s)
          IN  /\ Len(d) = Len(mf)
              /\ \A i \in 1..Len(mf) :
                    /\ d[i].id = mf[i].id
                    /\ d[i].display_name = mf[i].display_name
                    /\ d[i].download_name = mf[i].download_name
              /\ \A i, j \in 1..Len(d) : i # j => d[i].id # d[j].id
              /\ [ i \in 1..Len(mf) |-> mf[i].path ] = ExpectedPaths(servers[s].paths)
    /\ (response # <<>> /\ response[1].request # << "/" >>) =>
          LET r == response[1]
              d == session(r.server).files
          IN  (r.text # "NotFound") <=>
                  \E i \in 1..Len(d) : << "uuid" >> \o d[i].id = r.request

\* the last entry of the descriptor of the session not yet installed has
\* been downloaded from that session's server, and is the last input path
C28_Witness ==
    /\ response # <<>>
    /\ response[1].server = 2
    /\ response[1].status = 200
    /\ Len(session(2).files) = 3
    /\ response[1].request = << "uuid" >> \o session(2).files[3].id
    /\ response[1].file = << [ bytes_of |-> HomeDir \o << "a.txt" >> ] >>

(***************************************************************************)
(* Progress of the calls                                                   *)
(***************************************************************************)
\* C29: under a fair scheduler, with every signalled server task coming to
\* its end, every start, stop and snapshot call in progress eventually
\* returns, whatever the other callers do; the lock is held only by a call
\* in progress, which is a start awaiting a signalled share, and no waiter
\* holds it; and the lock is free whenever no call is in progress.
C29_CallsReturn ==
    /\ \A p \in Callers : InProgress(p) ~> (pc[p] \in Returned)
    /\ [](lock # None =>
            /\ InProgress(lock)
            /\ pc[lock] = "start_await"
            /\ servers[taken[lock]].signal = "sent")
    /\ []((\A p \in Callers : ~InProgress(p)) => lock = None)

\* a start holds the lock and awaits a share that is finishing its
\* responses, while a stop waits for the lock
C29_Witness ==
    \E p, q \in Callers :
        /\ pc[p] = "start_await"
        /\ lock = p
        /\ servers[taken[p]].status = "draining"
        /\ pc[q] = "stop_lock"

(***************************************************************************)
(* Properties of a server whose sender is dropped                          *)
(***************************************************************************)
\* C30: a server whose sender was dropped without a signal is not in the
\* slot and was never installed; while it still accepts, the step that ends
\* its accept loop can be taken, as for a signalled server; it never goes
\* back to accepting; and it eventually completes, so that every listener
\* of a server no call and no slot refers to is eventually closed.
C30_DroppedSenderShutsDown ==
    /\ [](\A s \in Sessions :
            servers[s].signal = "closed" =>
                /\ s # inner
                /\ ~servers[s].installed
                /\ \A p \in Callers : mine[p] # s
                /\ servers[s].status = "serving" => ENABLED ServerShutdown(s))
    /\ [][ \A s \in Sessions :
             (servers[s].signal = "closed" /\ servers[s].status # "serving") =>
                 servers'[s].status \in { "draining", "done", "none" } ]_vars
    /\ \A s \in Sessions :
          (servers[s].signal = "closed") ~> (servers[s].status \in { "done", "none" })
    /\ \A s \in Sessions :
          (Bound(s) /\ s # inner /\ \A p \in Callers : mine[p] # s) ~> ~Bound(s)

\* the server of an abandoned start has closed its listener after its
\* sender was dropped, while the session it was to replace is still in the
\* slot
C30_Witness ==
    \E s \in Sessions :
        /\ servers[s].signal = "closed"
        /\ servers[s].status \in { "draining", "done" }
        /\ ~servers[s].installed
        /\ inner # None
        /\ Bound(inner)

==========================================================================
